---- MODULE Spec2Model ----
(***************************************************************************)
(* The User Store Service (backend_service.py) and the Dashboard Service   *)
(* (frontend_service.py).  JSON objects and Python dicts are functions     *)
(* from string keys to values; `k in d` is k \in DOMAIN d.                 *)
(***************************************************************************)
EXTENDS Integers, Sequences, FiniteSets, TLC

VARIABLES
    users_db,     \* backend_service.users_db: id -> user dict
    issued,       \* the identifiers uuid.uuid4() has returned so far
    resp,         \* the last request handled and the response it was given
    created_201,  \* number of POST /api/users answered 201 so far
    deleted_200,  \* number of DELETE /api/users/{id} answered 200 so far
    threads       \* in-flight handler invocations (threaded host)

vars == <<users_db, issued, resp, created_201, deleted_200, threads>>

\* ------------------------------------------------------------ bounds

\* How many identifiers uuid4 may hand out in one run.
MaxUuid == 1

\* How many requests a threaded host handles at once.
NumWorkers == 2

\* ------------------------------------------------------------ values

\* Python's None, as returned by request.get_json() for a missing body.
None == [NoneType |-> "None"]

\* `not d` for a value that is None or a dict.
Falsy(d) == d = None \/ DOMAIN d = {}

EmptyDict == [k \in {} |-> "x"]

\* d[k] = v on a dict (adds the key when it is absent).
SetItem(d, k, v) == [x \in DOMAIN d \cup {k} |-> IF x = k THEN v ELSE d[x]]

\* d.get(k, default)
DictGet(d, k, default) == IF k \in DOMAIN d THEN d[k] ELSE default

\* The seeded store.
SeedUsers ==
    [i \in {"1", "2"} |->
        IF i = "1"
        THEN [id |-> "1", name |-> "John Doe", email |-> "john@example.com",
              role |-> "admin", created_at |-> "2025-01-01T10:00:00Z"]
        ELSE [id |-> "2", name |-> "Jane Smith", email |-> "jane@example.com",
              role |-> "user", created_at |-> "2025-01-02T11:00:00Z"]]

\* What str(uuid.uuid4()) can return: never "1" or "2", which are not UUIDs.
UUIDs == {"uuid-" \o ToString(i) : i \in 1..MaxUuid}

\* What datetime.utcnow().isoformat() returns while the run lasts (the
\* seeds' created_at are earlier, and written with a trailing Z).
Times == {"2026-01-01T00:00:00"}

\* Path parameters tried by clients: every id that is or may come to be in
\* the store, and one that never is.
Ids == DOMAIN SeedUsers \cup UUIDs \cup {"0"}

\* Request bodies tried by clients: no body, every JSON object over the
\* three user fields (the empty object included), and one object that
\* holds none of them.
UserFields == {"name", "email", "role"}

BodyVal(k) ==
    CASE k = "name" -> "Alice"
      [] k = "email" -> "a@x.com"
      [] k = "role" -> "guest"
      [] k = "id" -> "0"
      [] k = "created_at" -> "1999-12-31T00:00:00"

Bodies ==
    {None} \cup {[k \in S |-> BodyVal(k)] : S \in SUBSET UserFields}
           \cup {[k \in {"id", "created_at"} |-> BodyVal(k)]}

\* A JSON response: jsonify(body), status.
Response(body, status) == [status |-> status, body |-> body]

Err(msg) == [error |-> msg]

\* ------------------------------------------------------------ backend

\* The first field of required_fields missing from data, or None.
RECURSIVE FirstMissing(_, _)
FirstMissing(fields, data) ==
    IF fields = <<>> THEN None
    ELSE IF Head(fields) \notin DOMAIN data THEN [field |-> Head(fields)]
    ELSE FirstMissing(Tail(fields), data)

\* list(users_db.values())
RECURSIVE ValuesOf(_, _)
ValuesOf(db, keys) ==
    IF keys = {} THEN <<>>
    ELSE LET k == CHOOSE x \in keys : TRUE
         IN <<db[k]>> \o ValuesOf(db, keys \ {k})

\* Each handler yields the response and the store it leaves behind.
Outcome(r, db) == [resp |-> r, db |-> db]

health_check(db, now) ==
    Outcome(Response([status |-> "healthy", service |-> "backend-user-service",
                      timestamp |-> now, version |-> "1.0.0"], 200), db)

get_users(db) ==
    Outcome(Response([users |-> ValuesOf(db, DOMAIN db),
                      count |-> Cardinality(DOMAIN db)], 200), db)

get_user(db, user_id) ==
    IF user_id \notin DOMAIN db
    THEN Outcome(Response(Err("User not found"), 404), db)
    ELSE Outcome(Response(db[user_id], 200), db)

\* create_user scanning the required fields in the other order.
create_user_email_first(db, data, user_id, now) ==
    IF Falsy(data)
    THEN Outcome(Response(Err("No data provided"), 400), db)
    ELSE LET missing == FirstMissing(<<"email", "name">>, data) IN
         IF missing # None
         THEN Outcome(Response(Err("Missing required field: " \o missing.field), 400), db)
         ELSE LET new_user == [id |-> user_id,
                               name |-> data["name"],
                               email |-> data["email"],
                               role |-> DictGet(data, "role", "user"),
                               created_at |-> now]
              IN Outcome(Response(new_user, 201), SetItem(db, user_id, new_user))

\* create_user inserting the record as soon as name is known, before the
\* email check.
create_user_insert_first(db, data, user_id, now) ==
    IF Falsy(data)
    THEN Outcome(Response(Err("No data provided"), 400), db)
    ELSE IF "name" \notin DOMAIN data
    THEN Outcome(Response(Err("Missing required field: name"), 400), db)
    ELSE LET new_user == [id |-> user_id,
                          name |-> data["name"],
                          email |-> DictGet(data, "email", ""),
                          role |-> DictGet(data, "role", "user"),
                          created_at |-> now]
         IN IF "email" \notin DOMAIN data
            THEN Outcome(Response(Err("Missing required field: email"), 400),
                         SetItem(db, user_id, new_user))
            ELSE Outcome(Response(new_user, 201), SetItem(db, user_id, new_user))

\* create_user taking the role from the body only when it is not there.
create_user_no_default(db, data, user_id, now) ==
    IF Falsy(data)
    THEN Outcome(Response(Err("No data provided"), 400), db)
    ELSE LET missing == FirstMissing(<<"name", "email">>, data) IN
         IF missing # None
         THEN Outcome(Response(Err("Missing required field: " \o missing.field), 400), db)
         ELSE LET new_user == [id |-> user_id,
                               name |-> data["name"],
                               email |-> data["email"],
                               role |-> "user",
                               created_at |-> now]
              IN Outcome(Response(new_user, 201), SetItem(db, user_id, new_user))

create_user(db, data, user_id, now) ==
    IF Falsy(data)
    THEN Outcome(Response(Err("No data provided"), 400), db)
    ELSE LET missing == FirstMissing(<<"name", "email">>, data) IN
         IF missing # None
         THEN Outcome(Response(Err("Missing required field: " \o missing.field), 400), db)
         ELSE LET new_user == [id |-> user_id,
                               name |-> data["name"],
                               email |-> data["email"],
                               role |-> DictGet(data, "role", "user"),
                               created_at |-> now]
              IN Outcome(Response(new_user, 201), SetItem(db, user_id, new_user))

\* The loop over ['name', 'email', 'role'] of update_user.
RECURSIVE CopyFields(_, _, _)
CopyFields(user, fields, data) ==
    IF fields = <<>> THEN user
    ELSE CopyFields(IF Head(fields) \in DOMAIN data
                    THEN SetItem(user, Head(fields), data[Head(fields)])
                    ELSE user,
                    Tail(fields), data)

\* update_user reading the body before looking the id up.
update_user_body_first(db, user_id, data, now) ==
    IF Falsy(data)
    THEN Outcome(Response(Err("No data provided"), 400), db)
    ELSE IF user_id \notin DOMAIN db
    THEN Outcome(Response(Err("User not found"), 404), db)
    ELSE LET user == SetItem(CopyFields(db[user_id], <<"name", "email", "role">>, data),
                             "updated_at", now)
         IN Outcome(Response(user, 200), SetItem(db, user_id, user))

\* update_user as user.update(data): every key of the body is copied.
update_user_all_keys(db, user_id, data, now) ==
    IF user_id \notin DOMAIN db
    THEN Outcome(Response(Err("User not found"), 404), db)
    ELSE IF Falsy(data)
    THEN Outcome(Response(Err("No data provided"), 400), db)
    ELSE LET user == SetItem([k \in DOMAIN db[user_id] \cup DOMAIN data |->
                                 IF k \in DOMAIN data THEN data[k] ELSE db[user_id][k]],
                             "updated_at", now)
         IN Outcome(Response(user, 200), SetItem(db, user_id, user))

update_user(db, user_id, data, now) ==
    IF user_id \notin DOMAIN db
    THEN Outcome(Response(Err("User not found"), 404), db)
    ELSE IF Falsy(data)
    THEN Outcome(Response(Err("No data provided"), 400), db)
    ELSE LET user == SetItem(CopyFields(db[user_id], <<"name", "email", "role">>, data),
                             "updated_at", now)
         IN Outcome(Response(user, 200), SetItem(db, user_id, user))

\* delete_user answering with the record but leaving it in the store.
delete_user_keeps(db, user_id) ==
    IF user_id \notin DOMAIN db
    THEN Outcome(Response(Err("User not found"), 404), db)
    ELSE Outcome(Response([message |-> "User deleted successfully",
                           user |-> db[user_id]], 200), db)

delete_user(db, user_id) ==
    IF user_id \notin DOMAIN db
    THEN Outcome(Response(Err("User not found"), 404), db)
    ELSE Outcome(Response([message |-> "User deleted successfully",
                           user |-> db[user_id]], 200),
                 [k \in DOMAIN db \ {user_id} |-> db[k]])

get_stats(db, now) ==
    Outcome(Response([total_users |-> Cardinality(DOMAIN db),
                      service_info |-> [name |-> "backend-user-service",
                                        version |-> "1.0.0",
                                        environment |-> "development"],
                      timestamp |-> now], 200), db)

\* An identifier generator that may repeat itself.
uuid4_repeating == UUIDs

\* uuid.uuid4(): an identifier that was never handed out before.
uuid4 == UUIDs \ issued

\* ------------------------------------------------------------ requests

\* ------------------------------------------------------------ frontend

BACKEND_URL == "http://localhost:8086"

\* How one outbound HTTP call can end: the backend answers; the connection
\* fails; the 5 s timeout passes; something at BACKEND_URL answers 503.
NetOutcomes == {"ok", "ConnectionError", "Timeout", "503"}

\* A request of the Dashboard to the User Store.
Request(method, route, id, data) ==
    [method |-> method, route |-> route, id |-> id, data |-> data]

Url(req) ==
    BACKEND_URL \o req.route \o (IF req.id = "" THEN "" ELSE "/" \o req.id)

\* The User Store's routing of the requests the Dashboard sends.
Dispatch(db, req, uid, now) ==
    CASE req.method = "GET" /\ req.route = "/health" -> health_check(db, now)
      [] req.method = "GET" /\ req.route = "/api/users" /\ req.id = "" -> get_users(db)
      [] req.method = "GET" /\ req.route = "/api/stats" -> get_stats(db, now)
      [] req.method = "POST" /\ req.route = "/api/users" ->
            create_user(db, req.data, uid, now)
      [] req.method = "DELETE" /\ req.route = "/api/users" -> delete_user(db, req.id)
      [] OTHER -> Outcome(Response(Err("Endpoint not found"), 404), db)

\* The reason phrase of a status line.
Reason(status) ==
    CASE status = 400 -> "BAD REQUEST"
      [] status = 404 -> "NOT FOUND"
      [] status = 500 -> "INTERNAL SERVER ERROR"
      [] status = 503 -> "SERVICE UNAVAILABLE"
      [] OTHER -> "UNKNOWN"

\* str(e) of the HTTPError that response.raise_for_status() raises.
HTTPErrorStr(status, url) ==
    ToString(status)
        \o (IF status < 500 THEN " Client Error: " ELSE " Server Error: ")
        \o Reason(status) \o " for url: " \o url

\* str(e) of the exception requests raises when no response arrives.
NetErrorStr(net, url) ==
    IF net = "Timeout"
    THEN "HTTPConnectionPool(host='localhost', port=8086): Read timed out. (read timeout=5)"
    ELSE "HTTPConnectionPool(host='localhost', port=8086): Max retries exceeded with url: " \o url

\* What call_backend_api hands back: (json, status), or an exception that
\* leaves it; with the store as the call left it and the HTTP response that
\* arrived, if one did.
Returned(json, status, db, received) ==
    [json |-> json, status |-> status, raised |-> "", db |-> db, received |-> received]

Raised(exc, db) ==
    [json |-> None, status |-> 0, raised |-> exc, db |-> db, received |-> None]

\* call_backend_api with the except clause left out.
call_backend_api_uncaught(db, req, net, uid, now) ==
    IF req.method \notin {"GET", "POST", "DELETE"}
    THEN Raised("ValueError", db)
    ELSE IF net \in {"ConnectionError", "Timeout"}
    THEN Raised("RequestException", db)
    ELSE LET o == IF net = "503"
                  THEN Outcome(Response([html |-> "Service Unavailable"], 503), db)
                  ELSE Dispatch(db, req, uid, now)
         IN IF o.resp.status >= 400
            THEN Raised("RequestException", o.db)
            ELSE Returned(o.resp.body, o.resp.status, o.db, o.resp)

call_backend_api(db, req, net, uid, now) ==
    IF req.method \notin {"GET", "POST", "DELETE"}
    THEN Raised("ValueError", db)
    ELSE IF net \in {"ConnectionError", "Timeout"}
    THEN Returned(Err(NetErrorStr(net, Url(req))), 500, db, None)
    ELSE LET o == IF net = "503"
                  THEN Outcome(Response([html |-> "Service Unavailable"], 503), db)
                  ELSE Dispatch(db, req, uid, now)
         IN IF o.resp.status >= 400
            THEN Returned(Err(HTTPErrorStr(o.resp.status, Url(req))), 500, o.db, o.resp)
            ELSE Returned(o.resp.body, o.resp.status, o.db, o.resp)

\* What a Dashboard handler yields: its response, the store its backend
\* calls left behind, and those calls (how each ended, what arrived).
FrontOutcome(r, db, calls) == [resp |-> r, db |-> db, calls |-> calls]

Call(net, c) == [net |-> net, received |-> c.received]

\* The 500 page of the Dashboard's errorhandler.
InternalError == Response([html |-> "500 - Internal Server Error"], 500)

\* The template reads user.id[:8] and user.created_at[:10] of every user.
Renders(users) ==
    \A i \in 1..Len(users) : {"id", "created_at"} \subseteq DOMAIN users[i]

dashboard(db, nets, args, now) ==
    LET c1 == call_backend_api(db, Request("GET", "/api/users", "", None), nets[1], "", now)
        users == IF c1.status = 200 THEN DictGet(c1.json, "users", <<>>) ELSE <<>>
        c2 == call_backend_api(c1.db, Request("GET", "/api/stats", "", None), nets[2], "", now)
        stats == IF c2.status = 200 THEN c2.json ELSE None
        c3 == call_backend_api(c2.db, Request("GET", "/health", "", None), nets[3], "", now)
        backend_status == IF c3.status = 200 THEN "Online" ELSE "Offline"
        calls == <<Call(nets[1], c1), Call(nets[2], c2), Call(nets[3], c3)>>
    IN IF c1.raised # "" \/ c2.raised # "" \/ c3.raised # "" \/ ~Renders(users)
       THEN FrontOutcome(InternalError, c3.db, calls)
       ELSE FrontOutcome(
                Response([users |-> users, stats |-> stats,
                          backend_status |-> backend_status,
                          frontend_status |-> "Online",
                          message |-> DictGet(args, "message", "None"),
                          message_type |-> DictGet(args, "type", "success")], 200),
                c3.db, calls)

\* redirect(url_for('dashboard', message=message, type=message_type))
Redirect(message, message_type) ==
    Response([location |-> "/", message |-> message, type |-> message_type], 302)

add_user(db, form, net, uid, now) ==
    IF ~({"name", "email", "role"} \subseteq DOMAIN form)
    THEN \* request.form[...] raises BadRequestKeyError
         FrontOutcome(Response([html |-> "400 Bad Request"], 400), db, <<>>)
    ELSE LET user_data == [name |-> form["name"], email |-> form["email"],
                           role |-> form["role"]]
             c == call_backend_api(db, Request("POST", "/api/users", "", user_data),
                                   net, uid, now)
         IN IF c.raised # ""
            THEN FrontOutcome(InternalError, c.db, <<Call(net, c)>>)
            ELSE IF c.status = 201
            THEN FrontOutcome(
                     Redirect("User '" \o user_data["name"] \o "' added successfully!",
                              "success"), c.db, <<Call(net, c)>>)
            ELSE FrontOutcome(
                     Redirect("Failed to add user: "
                                  \o DictGet(c.json, "error", "Unknown error"),
                              "danger"), c.db, <<Call(net, c)>>)

front_delete_user(db, user_id, net) ==
    LET c == call_backend_api(db, Request("DELETE", "/api/users", user_id, None),
                              net, "", "")
    IN IF c.raised # ""
       THEN FrontOutcome(InternalError, c.db, <<Call(net, c)>>)
       ELSE IF c.status = 200
       THEN FrontOutcome(Redirect("User deleted successfully!", "success"),
                         c.db, <<Call(net, c)>>)
       ELSE FrontOutcome(
                Redirect("Failed to delete user: "
                             \o DictGet(c.json, "error", "Unknown error"),
                         "danger"), c.db, <<Call(net, c)>>)

\* ------------------------------------------------------------ requests

\* The request that was handled, kept with its response; for a Dashboard
\* request, with the backend calls it made.
Handled(svc, op, id, data, r) ==
    [svc |-> svc, op |-> op, id |-> id, data |-> data,
     status |-> r.status, body |-> r.body, calls |-> <<>>]

HandledFront(op, id, data, o) ==
    [svc |-> "frontend", op |-> op, id |-> id, data |-> data,
     status |-> o.resp.status, body |-> o.resp.body, calls |-> o.calls]

Init ==
    /\ users_db = SeedUsers
    /\ issued = {}
    /\ resp = Handled("none", "none", "0", None, Response(EmptyDict, 0))
    /\ created_201 = 0
    /\ deleted_200 = 0
    /\ threads = <<>>

BackendHealth ==
    \E now \in Times :
        LET o == health_check(users_db, now) IN
        /\ resp' = Handled("backend", "health", "0", None, o.resp)
        /\ UNCHANGED <<users_db, issued, created_201, deleted_200, threads>>

GetUsers ==
    LET o == get_users(users_db) IN
    /\ resp' = Handled("backend", "list", "0", None, o.resp)
    /\ UNCHANGED <<users_db, issued, created_201, deleted_200, threads>>

GetUser ==
    \E id \in Ids :
        LET o == get_user(users_db, id) IN
        /\ resp' = Handled("backend", "get", id, None, o.resp)
        /\ UNCHANGED <<users_db, issued, created_201, deleted_200, threads>>

\* uuid4 is called once the body has passed validation: a rejected create
\* draws no identifier.
Rejected(data, now) == create_user(users_db, data, "", now).resp.status # 201

CreateUser ==
    \E data \in Bodies, now \in Times :
        \E uid \in IF Rejected(data, now) THEN {""} ELSE uuid4 :
            LET o == create_user(users_db, data, uid, now) IN
            /\ resp' = Handled("backend", "create", "0", data, o.resp)
            /\ users_db' = o.db
            /\ issued' = IF o.resp.status = 201 THEN issued \cup {uid} ELSE issued
            /\ created_201' = IF o.resp.status = 201 THEN created_201 + 1 ELSE created_201
            /\ UNCHANGED <<deleted_200, threads>>

UpdateUser ==
    \E id \in Ids, data \in Bodies, now \in Times :
        LET o == update_user(users_db, id, data, now) IN
        /\ resp' = Handled("backend", "update", id, data, o.resp)
        /\ users_db' = o.db
        /\ UNCHANGED <<issued, created_201, deleted_200, threads>>

DeleteUser ==
    \E id \in Ids :
        LET o == delete_user(users_db, id) IN
        /\ resp' = Handled("backend", "delete", id, None, o.resp)
        /\ users_db' = o.db
        /\ deleted_200' = IF o.resp.status = 200 THEN deleted_200 + 1 ELSE deleted_200
        /\ UNCHANGED <<issued, created_201, threads>>

GetStats ==
    \E now \in Times :
        LET o == get_stats(users_db, now) IN
        /\ resp' = Handled("backend", "stats", "0", None, o.resp)
        /\ UNCHANGED <<users_db, issued, created_201, deleted_200, threads>>

Next ==
    \/ BackendHealth
    \/ GetUsers
    \/ GetUser
    \/ CreateUser
    \/ UpdateUser
    \/ DeleteUser
    \/ GetStats

\* The User Store serving one request after the other.
Spec == Init /\ [][Next]_vars

\* ------------------------------------------------------------ dashboard runs

\* Form posts tried on /add_user: every subset of the three form fields.
Forms == {[k \in S |-> BodyVal(k)] : S \in SUBSET UserFields}

\* Query strings tried on /: none, and a flash message.
QueryArgs == {EmptyDict, [message |-> "Saved", type |-> "danger"]}

\* The successful backend answers among `calls` with the given status.
Answered(calls, status) ==
    Cardinality({i \in 1..Len(calls) :
                    calls[i].received # None /\ calls[i].received.status = status})

Dashboard ==
    \E n1 \in NetOutcomes, n2 \in NetOutcomes, n3 \in NetOutcomes,
       args \in QueryArgs, now \in Times :
        LET o == dashboard(users_db, <<n1, n2, n3>>, args, now) IN
        /\ resp' = HandledFront("dashboard", "", args, o)
        /\ users_db' = o.db
        /\ UNCHANGED <<issued, created_201, deleted_200, threads>>

AddUser ==
    \E form \in Forms, net \in NetOutcomes, now \in Times :
        \E uid \in IF Answered(add_user(users_db, form, net, "", now).calls, 201) = 0
                   THEN {""} ELSE uuid4 :
            LET o == add_user(users_db, form, net, uid, now) IN
            /\ resp' = HandledFront("add_user", "", form, o)
            /\ users_db' = o.db
            /\ issued' = IF Answered(o.calls, 201) > 0 THEN issued \cup {uid} ELSE issued
            /\ created_201' = created_201 + Answered(o.calls, 201)
            /\ UNCHANGED <<deleted_200, threads>>

FrontDeleteUser ==
    \E id \in Ids, net \in NetOutcomes :
        LET o == front_delete_user(users_db, id, net) IN
        /\ resp' = HandledFront("delete_user", id, None, o)
        /\ users_db' = o.db
        /\ deleted_200' = deleted_200 + Answered(o.calls, 200)
        /\ UNCHANGED <<issued, created_201, threads>>

NextFront ==
    \/ Dashboard
    \/ AddUser
    \/ FrontDeleteUser

\* The Dashboard serving browsers, over a network that may fail.
SpecFront == Init /\ [][NextFront]_vars

\* ------------------------------------------------------------ threaded runs

\* The handler invocations a threaded host runs side by side.
Workers == 1..NumWorkers

\* The ids and bodies of the requests that race: a seeded id and an id that
\* is never in the store; no body, one field, all three fields.
RaceIds == {"1", "0"}

RaceBodies == {None, [k \in {"name"} |-> BodyVal(k)], [k \in UserFields |-> BodyVal(k)]}

Idle ==
    [op |-> "none", id |-> "", data |-> None, pc |-> "idle", fields |-> <<>>,
     status |-> 0, stale |-> FALSE]

\* Flask hands a request to a worker thread.
Accept(w) ==
    /\ threads[w].pc = "idle"
    /\ \E op \in {"get", "update", "delete"}, id \in RaceIds, data \in RaceBodies :
        /\ op # "update" => data = None
        /\ threads' = [threads EXCEPT ![w] =
                          [Idle EXCEPT !.op = op, !.id = id, !.data = data, !.pc = "check"]]
    /\ UNCHANGED <<users_db, issued, resp, created_201, deleted_200>>

Finish(t, status) == [t EXCEPT !.pc = "done", !.status = status]

\* `if user_id not in users_db: return ..., 404` of the three handlers.
CheckId(w) ==
    LET t == threads[w] IN
    /\ t.pc = "check"
    /\ threads' = [threads EXCEPT ![w] =
          IF t.id \notin DOMAIN users_db THEN Finish(t, 404)
          ELSE [t EXCEPT !.pc = CASE t.op = "get" -> "read"
                                  [] t.op = "update" -> "body"
                                  [] t.op = "delete" -> "pop"]]
    /\ UNCHANGED <<users_db, issued, resp, created_201, deleted_200>>

\* `return jsonify(users_db[user_id]), 200` of get_user; a KeyError ends in
\* the 500 of the errorhandler.
ReadUser(w) ==
    LET t == threads[w] IN
    /\ t.pc = "read"
    /\ threads' = [threads EXCEPT ![w] =
          IF t.id \in DOMAIN users_db THEN Finish(t, 200) ELSE Finish(t, 500)]
    /\ UNCHANGED <<users_db, issued, resp, created_201, deleted_200>>

\* `data = request.get_json(); if not data: return ..., 400` of update_user.
CheckBody(w) ==
    LET t == threads[w] IN
    /\ t.pc = "body"
    /\ threads' = [threads EXCEPT ![w] =
          IF Falsy(t.data) THEN Finish(t, 400) ELSE [t EXCEPT !.pc = "lookup"]]
    /\ UNCHANGED <<users_db, issued, resp, created_201, deleted_200>>

\* `user = users_db[user_id]` of update_user.
LookupUser(w) ==
    LET t == threads[w] IN
    /\ t.pc = "lookup"
    /\ threads' = [threads EXCEPT ![w] =
          IF t.id \in DOMAIN users_db
          THEN [t EXCEPT !.pc = "write", !.fields = <<"name", "email", "role">>]
          ELSE Finish(t, 500)]
    /\ UNCHANGED <<users_db, issued, resp, created_201, deleted_200>>

\* user[k] = v through the local reference: the dict it names is changed,
\* whether the store still holds it or not.
WriteThrough(w, k, v) ==
    LET t == threads[w] IN
    IF t.id \in DOMAIN users_db
    THEN /\ users_db' = [users_db EXCEPT ![t.id] = SetItem(@, k, v)]
         /\ UNCHANGED <<issued, resp, created_201, deleted_200>>
    ELSE UNCHANGED <<users_db, issued, resp, created_201, deleted_200>>

\* One turn of `for field in [...]: if field in data: user[field] = data[field]`.
WriteField(w) ==
    LET t == threads[w]
        f == Head(t.fields)
    IN /\ t.pc = "write"
       /\ IF f \in DOMAIN t.data
          THEN /\ WriteThrough(w, f, t.data[f])
               /\ threads' = [threads EXCEPT ![w] =
                     [t EXCEPT !.fields = Tail(t.fields),
                               !.pc = IF Len(t.fields) = 1 THEN "stamp" ELSE "write",
                               !.stale = t.stale \/ t.id \notin DOMAIN users_db]]
          ELSE /\ threads' = [threads EXCEPT ![w] =
                     [t EXCEPT !.fields = Tail(t.fields),
                               !.pc = IF Len(t.fields) = 1 THEN "stamp" ELSE "write"]]
               /\ UNCHANGED <<users_db, issued, resp, created_201, deleted_200>>

\* `user['updated_at'] = ...; return jsonify(user), 200` of update_user.
StampUser(w) ==
    LET t == threads[w] IN
    /\ t.pc = "stamp"
    /\ \E now \in Times : WriteThrough(w, "updated_at", now)
    /\ threads' = [threads EXCEPT ![w] =
          [Finish(t, 200) EXCEPT !.stale = t.stale \/ t.id \notin DOMAIN users_db]]

\* `deleted_user = users_db.pop(user_id); return ..., 200` of delete_user; a
\* KeyError ends in the 500 of the errorhandler.
PopUser(w) ==
    LET t == threads[w] IN
    /\ t.pc = "pop"
    /\ IF t.id \in DOMAIN users_db
       THEN /\ users_db' = [k \in DOMAIN users_db \ {t.id} |-> users_db[k]]
            /\ threads' = [threads EXCEPT ![w] = Finish(t, 200)]
       ELSE /\ users_db' = users_db
            /\ threads' = [threads EXCEPT ![w] = Finish(t, 500)]
    /\ UNCHANGED <<issued, resp, created_201, deleted_200>>

InitThreaded ==
    /\ users_db = SeedUsers
    /\ issued = {}
    /\ resp = Handled("none", "none", "0", None, Response(EmptyDict, 0))
    /\ created_201 = 0
    /\ deleted_200 = 0
    /\ threads = [w \in Workers |-> Idle]

NextThreaded ==
    \E w \in Workers :
        \/ Accept(w)
        \/ CheckId(w)
        \/ ReadUser(w)
        \/ CheckBody(w)
        \/ LookupUser(w)
        \/ WriteField(w)
        \/ StampUser(w)
        \/ PopUser(w)

\* The User Store on a threaded host: each worker handles one request, a
\* statement at a time, with the others' statements in between.
SpecThreaded == InitThreaded /\ [][NextThreaded]_vars

\* ------------------------------------------------------------ properties

\* The step just taken was the User Store handling `op`.
Backend(op) == resp'.svc = "backend" /\ resp'.op = op

\* The store after the step is the store before it, entry for entry.
SameStore == users_db' = users_db

\* Every entry but that of `id` is the same after the step as before it.
OthersKept(id) ==
    /\ DOMAIN users_db' \ {id} = DOMAIN users_db \ {id}
    /\ \A k \in DOMAIN users_db \ {id} : users_db'[k] = users_db[k]

\* The ids that were in the store once (seeded or created) and are not now.
Gone == (DOMAIN SeedUsers \cup issued) \ DOMAIN users_db

\* C1: a POST /api/users whose body holds name and email is answered 201
\* with a user whose id is in no entry of the store, that has created_at,
\* the body's name and email, the body's role or "user" without one; the
\* store afterwards is the store before plus that one entry.
C1_CreateAddsOneFreshUser ==
    [][(Backend("create") /\ {"name", "email"} \subseteq DOMAIN resp'.data)
        => /\ resp'.status = 201
           /\ resp'.body.id \notin DOMAIN users_db
           /\ "created_at" \in DOMAIN resp'.body
           /\ resp'.body.name = resp'.data["name"]
           /\ resp'.body.email = resp'.data["email"]
           /\ resp'.body.role =
                 IF "role" \in DOMAIN resp'.data THEN resp'.data["role"] ELSE "user"
           /\ DOMAIN users_db' = DOMAIN users_db \cup {resp'.body.id}
           /\ users_db'[resp'.body.id] = resp'.body
           /\ OthersKept(resp'.body.id)]_vars

C1_Witness ==
    /\ resp.svc = "backend" /\ resp.op = "create" /\ resp.status = 201
    /\ "role" \notin DOMAIN resp.data
    /\ resp.body.role = "user"
    /\ DOMAIN users_db = {"1", "2", resp.body.id}

\* The first of name, email that the body lacks.
FirstAbsent(data) == IF "name" \notin DOMAIN data THEN "name" ELSE "email"

LacksRequired(data) == ~({"name", "email"} \subseteq DOMAIN data)

\* C2 as stated: every JSON object body (the empty object too) lacking name
\* or email is answered 400 "Missing required field: <f>", <f> the first of
\* name, email it lacks; "No data provided" is the answer only to a missing
\* body.
C2_EveryObjectNamesItsMissingField ==
    [][/\ (Backend("create") /\ resp'.data # None /\ LacksRequired(resp'.data))
            => /\ resp'.status = 400
               /\ resp'.body =
                     Err("Missing required field: " \o FirstAbsent(resp'.data))
       /\ (Backend("create") /\ resp'.body = Err("No data provided"))
            => resp'.data = None]_vars

\* C2 amended: a NON-EMPTY JSON object body lacking name or email is answered
\* 400 "Missing required field: <f>", <f> the first of name, email it lacks;
\* "No data provided" (400) is the answer exactly to a missing body and to
\* the empty object.
C2_NonEmptyObjectNamesItsMissingField ==
    [][/\ (Backend("create") /\ resp'.data # None /\ DOMAIN resp'.data # {}
                             /\ LacksRequired(resp'.data))
            => /\ resp'.status = 400
               /\ resp'.body =
                     Err("Missing required field: " \o FirstAbsent(resp'.data))
       /\ Backend("create")
            => ((resp'.status = 400 /\ resp'.body = Err("No data provided"))
                    <=> (resp'.data = None \/ resp'.data = EmptyDict))]_vars

C2_Witness ==
    /\ resp.svc = "backend" /\ resp.op = "create" /\ resp.status = 400
    /\ DOMAIN resp.data = {"role"}
    /\ resp.body = Err("Missing required field: name")

\* C3: a User Store request answered 4xx leaves the collection as it was;
\* a create lacking name or email and an update without a body are answered
\* 400, a get, update or delete of an id not in the store 404.
C3_ClientErrorsChangeNothing ==
    [][/\ (resp'.svc = "backend" /\ resp'.status \in 400..499) => SameStore
       /\ (Backend("create") /\ LacksRequired(resp'.data)) => resp'.status = 400
       /\ (Backend("update") /\ resp'.id \in DOMAIN users_db /\ resp'.data = None)
            => resp'.status = 400
       /\ (resp'.svc = "backend" /\ resp'.op \in {"get", "update", "delete"}
             /\ resp'.id \notin DOMAIN users_db) => resp'.status = 404]_vars

C3_Witness ==
    /\ resp.svc = "backend" /\ resp.op = "create" /\ resp.status = 400
    /\ DOMAIN resp.data = {"name", "role"}
    /\ created_201 = 1
    /\ Cardinality(DOMAIN users_db) = 3

\* C4: GET, PUT and DELETE of an id that is not a key of the store are
\* answered 404 "User not found", for PUT whatever the body (a missing body
\* included).
C4_AbsentIdIsNotFound ==
    [][(resp'.svc = "backend" /\ resp'.op \in {"get", "update", "delete"}
          /\ resp'.id \notin DOMAIN users_db)
        => /\ resp'.status = 404
           /\ resp'.body = Err("User not found")]_vars

C4_Witness ==
    /\ resp.svc = "backend" /\ resp.op = "update" /\ resp.data = None
    /\ resp.id \in Gone
    /\ resp.status = 404

\* C5: a PUT on an id of the store with a non-empty JSON body is answered 200
\* with the updated user; of name, email, role exactly those in the body are
\* overwritten, updated_at is set, every other field and every other user is
\* kept; and no step at all changes the id or created_at of a stored user.
C5_UpdateTouchesOnlyBodyFields ==
    [][/\ (Backend("update") /\ resp'.id \in DOMAIN users_db
                             /\ resp'.data # None /\ DOMAIN resp'.data # {})
            => /\ resp'.status = 200
               /\ resp'.id \in DOMAIN users_db'
               /\ resp'.body = users_db'[resp'.id]
               /\ LET old == users_db[resp'.id]
                      new == users_db'[resp'.id]
                      written == UserFields \cap DOMAIN resp'.data
                  IN /\ DOMAIN new = DOMAIN old \cup {"updated_at"}
                     /\ new["updated_at"] \in Times
                     /\ \A f \in written : new[f] = resp'.data[f]
                     /\ \A k \in DOMAIN old \ (written \cup {"updated_at"}) :
                            new[k] = old[k]
               /\ OthersKept(resp'.id)
       /\ \A k \in DOMAIN users_db \cap DOMAIN users_db' :
            /\ users_db'[k]["id"] = users_db[k]["id"]
            /\ users_db'[k]["created_at"] = users_db[k]["created_at"]
       /\ \A k \in DOMAIN users_db' : users_db'[k]["id"] = k]_vars

C5_Witness ==
    /\ resp.svc = "backend" /\ resp.op = "update" /\ resp.status = 200
    /\ resp.id = "1"
    /\ DOMAIN resp.data = {"name"}
    /\ users_db["1"] = [id |-> "1", name |-> "Alice", email |-> "john@example.com",
                        role |-> "admin", created_at |-> "2025-01-01T10:00:00Z",
                        updated_at |-> "2026-01-01T00:00:00"]

\* C6: a DELETE of an id of the store is answered 200 "User deleted
\* successfully" with the record as stored just before, whose id is the
\* requested one; that entry alone leaves the store; an id that has left the
\* store never comes back, and a GET of it is answered 404.
C6_DeletedStaysDeleted ==
    [][/\ (Backend("delete") /\ resp'.id \in DOMAIN users_db)
            => /\ resp'.status = 200
               /\ resp'.body = [message |-> "User deleted successfully",
                                user |-> users_db[resp'.id]]
               /\ resp'.body.user["id"] = resp'.id
               /\ resp'.id \notin DOMAIN users_db'
               /\ OthersKept(resp'.id)
       /\ \A id \in Gone : id \notin DOMAIN users_db'
       /\ (Backend("get") /\ resp'.id \in Gone) => resp'.status = 404]_vars

C6_Witness ==
    /\ resp.svc = "backend" /\ resp.op = "get" /\ resp.status = 404
    /\ resp.id \in issued
    /\ resp.id \in Gone
    /\ issued = UUIDs

\* C9: the count of GET /api/users is the number of users it lists, is the
\* total_users of GET /api/stats, and is 2 plus the creates answered 201
\* minus the deletes answered 200.
C9_CountIsSeedsPlusCreatesMinusDeletes ==
    /\ (resp.svc = "backend" /\ resp.op = "list")
         => /\ resp.body.count = Len(resp.body.users)
            /\ resp.body.count = 2 + created_201 - deleted_200
            /\ \A now \in Times :
                 resp.body.count = get_stats(users_db, now).resp.body.total_users
    /\ (resp.svc = "backend" /\ resp.op = "stats")
         => /\ resp.body.total_users = 2 + created_201 - deleted_200
            /\ resp.body.total_users = get_users(users_db).resp.body.count

C9_Witness ==
    /\ resp.svc = "backend" /\ resp.op = "list"
    /\ created_201 = 1 /\ deleted_200 = 1
    /\ issued \cap DOMAIN users_db = {}
    /\ resp.body.count = 2

\* `sub` occurs in the string `s`.
Contains(s, sub) ==
    \E i \in 1..(Len(s) - Len(sub) + 1) : SubSeq(s, i, i + Len(sub) - 1) = sub

\* The Dashboard's last response was a redirect of /add_user or
\* /delete_user/{id} for which the User Store itself gave an answer.
RelayedWithAnswer ==
    /\ resp.svc = "frontend" /\ resp.op \in {"add_user", "delete_user"}
    /\ resp.status = 302
    /\ Len(resp.calls) = 1
    /\ resp.calls[1].net = "ok"
    /\ resp.calls[1].received # None

\* C7: a redirect of /add_user has type success exactly when the backend
\* answered 201, one of /delete_user/{id} exactly when it answered 200;
\* otherwise the type is danger and the message contains the error string of
\* the backend's response body, or "Unknown error" when that has none.
C7_RedirectRelaysBackendError ==
    RelayedWithAnswer =>
        LET answer == resp.calls[1].received
            good == answer.status = (IF resp.op = "add_user" THEN 201 ELSE 200)
        IN /\ resp.body.type = "success" <=> good
           /\ ~good =>
                /\ resp.body.type = "danger"
                /\ Contains(resp.body.message,
                            IF "error" \in DOMAIN answer.body
                            THEN answer.body.error ELSE "Unknown error")

\* C8: GET / is answered 200 however its three backend calls end; a failed
\* users call gives an empty user list, a failed stats call no stats, a
\* failed health call the offline indicator.
C8_DashboardAlwaysRenders ==
    (resp.svc = "frontend" /\ resp.op = "dashboard") =>
        /\ resp.status = 200
        /\ Len(resp.calls) = 3
        /\ resp.calls[1].net # "ok" => resp.body.users = <<>>
        /\ resp.calls[2].net # "ok" => resp.body.stats = None
        /\ resp.calls[3].net # "ok" => resp.body.backend_status = "Offline"

C8_Witness ==
    /\ resp.svc = "frontend" /\ resp.op = "dashboard" /\ resp.status = 200
    /\ \A i \in 1..3 : resp.calls[i].net \in {"ConnectionError", "Timeout"}
    /\ resp.body.users = <<>>
    /\ resp.body.stats = None
    /\ resp.body.backend_status = "Offline"
    /\ Cardinality(DOMAIN users_db) = 3

\* C10: with the statements of concurrent handlers interleaved, every
\* request ends 200, 400 or 404 and never 500; two DELETEs of one id of the
\* store end one 200 and one 404; a PUT that ends 200 has written to no
\* record that was out of the store when it wrote.
C10_InterleavedRequestsEndAsDocumented ==
    /\ \A w \in Workers :
         threads[w].pc = "done" => threads[w].status \in {200, 400, 404}
    /\ \A v \in Workers, w \in Workers :
         (/\ v # w
          /\ threads[v].pc = "done" /\ threads[w].pc = "done"
          /\ threads[v].op = "delete" /\ threads[w].op = "delete"
          /\ threads[v].id = threads[w].id
          /\ threads[v].id \in DOMAIN SeedUsers)
         => {threads[v].status, threads[w].status} = {200, 404}
    /\ \A w \in Workers :
         (threads[w].pc = "done" /\ threads[w].op = "update" /\ threads[w].status = 200)
         => ~threads[w].stale

====
